---- MODULE Spec2Model ----
(***************************************************************************)
(* Model of server.py: main() of the Blink & Bloom development server.     *)
(* One run of main() is a sequential process (pc) with the exception in    *)
(* flight (exc); the environment supplies the command line, the platform,  *)
(* the state of port 8000, client connections, the outcome of              *)
(* webbrowser.open and the operator's Ctrl+C.                              *)
(***************************************************************************)
EXTENDS Integers, Sequences, FiniteSets, TLC

VARIABLES argv, platform, portInUse, cwd, pc, bi, bound, out, opens,
          pending, responses, dispatched, exc, intAt, exitCode, trace

vars == <<argv, platform, portInUse, cwd, pc, bi, bound, out, opens,
          pending, responses, dispatched, exc, intAt, exitCode, trace>>

(* ------------------------------ bounds --------------------------------- *)

\* total number of client connections made during one run
MaxRequests == 2

(* ----------------------------- constants ------------------------------- *)

PORT == 8000

\* the directory containing server.py, and the directory the operator
\* launched the process from
ScriptDir == "script_dir"

LaunchDirs == {"script_dir", "launch_dir"}

\* sys.argv; argv[1] is sys.argv[0] (the program), argv[2] is sys.argv[1]
ArgvSet ==
  { <<"server.py">>,
    <<"server.py", "--no-browser">>,
    <<"server.py", "--verbose", "--no-browser">>,
    <<"server.py", "--verbose">> }

Platforms == {"darwin", "linux", "win32"}

\* errno of "address already in use" as the platform's socket layer reports it
EADDRINUSE(p) ==
  CASE p = "darwin" -> 48
    [] p = "linux"  -> 98
    [] p = "win32"  -> 10048

\* errno values of a bind() that fails although the port is free
\* (EACCES, EADDRNOTAVAIL as numbered on the three platforms)
OtherBindErrnos(p) ==
  CASE p = "darwin" -> {13, 49}
    [] p = "linux"  -> {13, 99}
    [] p = "win32"  -> {10013, 10049}

\* errno values of an OSError raised while launching the browser
\* (ENOENT, ENOMEM)
BrowserErrnos == {2, 12}

(* ----------------------------- exceptions ------------------------------ *)

NoExc == [type |-> "none", errno |-> 0]

KeyboardInterrupt == [type |-> "KeyboardInterrupt", errno |-> 0]

OSError(e) == [type |-> "OSError", errno |-> e]

\* an exception that is neither KeyboardInterrupt nor OSError
\* (webbrowser.Error and the like)
OtherError == [type |-> "Error", errno |-> 0]

(* ------------------------------ console -------------------------------- *)

Line(l, p, d, e) == [line |-> l, port |-> p, dir |-> d, err |-> e]

\* the eight print calls of the banner; the second reads os.getcwd()
BannerLines(dir) ==
  << Line("starting", PORT, "", 0),
     Line("serving_from", 0, dir, 0),
     Line("available_pages", 0, "", 0),
     Line("main_game", PORT, "", 0),
     Line("gaze_test", PORT, "", 0),
     Line("note_https", 0, "", 0),
     Line("hint_https", 0, "", 0),
     Line("press_ctrl_c", 0, "", 0) >>

BannerLen == Len(BannerLines(ScriptDir))

StoppedLine == Line("server_stopped", 0, "", 0)

PortInUseLines == << Line("port_in_use", PORT, "", 0),
                     Line("try_different_port", 0, "", 0) >>

ErrorStartingLine(e) == Line("error_starting", 0, "", e)

CountLine(l) == Cardinality({i \in DOMAIN out : out[i].line = l})

(* ------------------------- request handling ---------------------------- *)

\* A request as the handler reads it: the number of words of the request
\* line, its command word, its version word (used when there are three
\* words or more), what the path names under the serving root, and whether
\* the client drops the connection while the response is written.
Req(c, w, v, t, f) == [command |-> c, words |-> w, vtok |-> v, target |-> t, fault |-> f]

Requests ==
  { Req("GET", 3, "HTTP/1.1", "file", FALSE),
    Req("GET", 3, "HTTP/1.1", "missing", FALSE),
    Req("GET", 3, "HTTP/1.0", "denied", FALSE),
    Req("GET", 3, "HTTP/1.0", "directory", FALSE),
    Req("GET", 2, "", "file", FALSE),
    Req("GET", 4, "HTTP/1.1", "file", FALSE),
    Req("GET", 3, "HTTP/9.9", "file", FALSE),
    Req("GET", 1, "", "missing", FALSE),
    Req("POST", 3, "HTTP/1.1", "file", FALSE),
    Req("GET", 3, "HTTP/1.1", "file", TRUE) }

COEP == <<"Cross-Origin-Embedder-Policy", "require-corp">>

COOP == <<"Cross-Origin-Opener-Policy", "same-origin">>

\* the blank line that ends the header block
EndOfHeaders == <<"", "">>

\* BaseHTTPRequestHandler.parse_request: request_version starts as
\* HTTP/0.9 and is replaced only by a well-formed version word below 2.0
parse_request(r) ==
  IF r.words >= 3 /\ r.vtok \notin {"HTTP/1.0", "HTTP/1.1", "HTTP/9.9"}
    THEN [ok |-> FALSE, version |-> "HTTP/0.9", status |-> 400]
  ELSE IF r.words >= 3 /\ r.vtok = "HTTP/9.9"
    THEN [ok |-> FALSE, version |-> "HTTP/0.9", status |-> 505]
  ELSE LET ver == IF r.words >= 3 THEN r.vtok ELSE "HTTP/0.9" IN
    IF r.words \notin {2, 3}
      THEN [ok |-> FALSE, version |-> ver, status |-> 400]
    ELSE IF r.words = 2 /\ r.command # "GET"
      THEN [ok |-> FALSE, version |-> ver, status |-> 400]
    ELSE [ok |-> TRUE, version |-> ver, status |-> 0]

\* BaseHTTPRequestHandler.send_header: buffers a header unless the request
\* is an HTTP/0.9 one, whose response has no header block
send_header(buf, ver, k, v) ==
  IF ver # "HTTP/0.9" THEN Append(buf, <<k, v>>) ELSE buf

\* BaseHTTPRequestHandler.end_headers: ends the header block and flushes it
base_end_headers(buf, ver) ==
  IF ver # "HTTP/0.9" THEN Append(buf, EndOfHeaders) ELSE buf

\* end_headers with the second send_header call left out
end_headers_NoCoop(buf, ver) ==
  base_end_headers(send_header(buf, ver, COEP[1], COEP[2]), ver)

\* CORSHTTPRequestHandler.end_headers
end_headers(buf, ver) ==
  base_end_headers(
    send_header(send_header(buf, ver, COEP[1], COEP[2]), ver, COOP[1], COOP[2]),
    ver)

\* BaseHTTPRequestHandler.send_response: status line, Server and Date
send_response(ver, code) ==
  send_header(send_header(<<>>, ver, "Server", "SimpleHTTP"), ver, "Date", "now")

\* BaseHTTPRequestHandler.send_error
send_error(ver, code) ==
  [status |-> code,
   headers |->
     end_headers(
       send_header(
         send_header(
           send_header(send_response(ver, code), ver, "Connection", "close"),
           ver, "Content-Type", "text/html;charset=utf-8"),
         ver, "Content-Length", "n"),
       ver)]

\* SimpleHTTPRequestHandler.send_head: 301 for a directory named without
\* its slash, 404 when open() raises OSError, 200 otherwise
send_head(r, ver) ==
  IF r.target = "directory"
    THEN [status |-> 301,
          headers |->
            end_headers(
              send_header(
                send_header(send_response(ver, 301), ver, "Location", "path/"),
                ver, "Content-Length", "0"),
              ver)]
  ELSE IF r.target \in {"missing", "denied"}
    THEN send_error(ver, 404)
  ELSE [status |-> 200,
        headers |->
          end_headers(
            send_header(
              send_header(
                send_header(send_response(ver, 200), ver, "Content-type", "text/html"),
                ver, "Content-Length", "n"),
              ver, "Last-Modified", "mtime"),
            ver)]

\* BaseHTTPRequestHandler.handle_one_request with the handler class of
\* main: parse, look up do_<command>, answer
handle_one_request(r) ==
  LET p == parse_request(r) IN
    IF ~p.ok THEN send_error(p.version, p.status)
    ELSE IF r.command # "GET" THEN send_error(p.version, 501)
    ELSE send_head(r, p.version)

\* the response a client receives: what the handler wrote, the version the
\* handler answered in and the directory the path was resolved against
Response(r, dir) ==
  LET a == handle_one_request(r) IN
    [req |-> r, version |-> parse_request(r).version, status |-> a.status,
     headers |-> a.headers, root |-> dir]

(* ------------------------------- main ---------------------------------- *)

IndexUrl == [port |-> PORT, path |-> "/index.html"]

\* len(sys.argv) > 1 and sys.argv[1] == '--no-browser'
NoBrowser(a) == Len(a) > 1 /\ a[2] = "--no-browser"

\* the positions of main inside the with block, where the socket is open
InWith == {"banner", "browser", "in_browser", "serving"}

\* the positions of main where an exception can still be raised
Running == {"chdir", "bind"} \cup InWith

Init ==
  /\ argv \in ArgvSet
  /\ platform \in Platforms
  /\ portInUse \in BOOLEAN
  /\ cwd \in LaunchDirs
  /\ pc = "chdir"
  /\ bi = 1
  /\ bound = FALSE
  /\ out = <<>>
  /\ opens = <<>>
  /\ pending = <<>>
  /\ responses = <<>>
  /\ dispatched = 0
  /\ exc = NoExc
  /\ intAt = "none"
  /\ exitCode = -1
  /\ trace = <<>>

\* main without the os.chdir call: the process stays where it was launched
Chdir_Skipped ==
  /\ pc = "chdir"
  /\ cwd' = cwd
  /\ pc' = "bind"
  /\ trace' = Append(trace, "chdir")
  /\ UNCHANGED <<argv, platform, portInUse, bi, bound, out, opens, pending,
                 responses, dispatched, exc, intAt, exitCode>>

\* os.chdir(os.path.dirname(os.path.abspath(__file__)))
Chdir ==
  /\ pc = "chdir"
  /\ cwd' = ScriptDir
  /\ pc' = "bind"
  /\ trace' = Append(trace, "chdir")
  /\ UNCHANGED <<argv, platform, portInUse, bi, bound, out, opens, pending,
                 responses, dispatched, exc, intAt, exitCode>>

\* socketserver.TCPServer(("", PORT), ...) binds and listens
BindOk ==
  /\ pc = "bind"
  /\ ~portInUse
  /\ bound' = TRUE
  /\ pc' = "banner"
  /\ bi' = 1
  /\ trace' = Append(trace, "bind")
  /\ UNCHANGED <<argv, platform, portInUse, cwd, out, opens, pending,
                 responses, dispatched, exc, intAt, exitCode>>

\* the constructor raises OSError; the with block is never entered
BindFail ==
  /\ pc = "bind"
  /\ \E e \in (IF portInUse THEN {EADDRINUSE(platform)} ELSE OtherBindErrnos(platform)) :
       exc' = OSError(e)
  /\ pc' = "except"
  /\ trace' = Append(trace, "bind_failed")
  /\ UNCHANGED <<argv, platform, portInUse, cwd, bi, bound, out, opens, pending,
                 responses, dispatched, intAt, exitCode>>

\* the banner with every print call doubled
Banner_Repeats ==
  /\ pc = "banner"
  /\ out' = out \o <<BannerLines(cwd)[bi], BannerLines(cwd)[bi]>>
  /\ IF bi = BannerLen
       THEN /\ pc' = "browser"
            /\ bi' = bi
            /\ trace' = Append(trace, "banner")
       ELSE /\ pc' = pc
            /\ bi' = bi + 1
            /\ trace' = trace
  /\ UNCHANGED <<argv, platform, portInUse, cwd, bound, opens, pending,
                 responses, dispatched, exc, intAt, exitCode>>

\* one print call of the banner
Banner ==
  /\ pc = "banner"
  /\ out' = Append(out, BannerLines(cwd)[bi])
  /\ IF bi = BannerLen
       THEN /\ pc' = "browser"
            /\ bi' = bi
            /\ trace' = Append(trace, "banner")
       ELSE /\ pc' = pc
            /\ bi' = bi + 1
            /\ trace' = trace
  /\ UNCHANGED <<argv, platform, portInUse, cwd, bound, opens, pending,
                 responses, dispatched, exc, intAt, exitCode>>

\* the browser step without the test of sys.argv
BrowserStep_IgnoresFlag ==
  /\ pc = "browser"
  /\ pc' = "in_browser"
  /\ opens' = Append(opens, IndexUrl)
  /\ trace' = Append(trace, "browser_open")
  /\ UNCHANGED <<argv, platform, portInUse, cwd, bi, bound, out, pending,
                 responses, dispatched, exc, intAt, exitCode>>

\* if ... '--no-browser': pass  else: webbrowser.open(...) is called
BrowserStep ==
  /\ pc = "browser"
  /\ IF NoBrowser(argv)
       THEN /\ pc' = "serving"
            /\ opens' = opens
            /\ trace' = Append(trace, "serve_forever")
       ELSE /\ pc' = "in_browser"
            /\ opens' = Append(opens, IndexUrl)
            /\ trace' = Append(trace, "browser_open")
  /\ UNCHANGED <<argv, platform, portInUse, cwd, bi, bound, out, pending,
                 responses, dispatched, exc, intAt, exitCode>>

\* webbrowser.open returns True or False, and main goes on to serve_forever
BrowserReturn ==
  /\ pc = "in_browser"
  /\ \E r \in {"browser_true", "browser_false"} :
       trace' = trace \o <<r, "serve_forever">>
  /\ pc' = "serving"
  /\ UNCHANGED <<argv, platform, portInUse, cwd, bi, bound, out, opens, pending,
                 responses, dispatched, exc, intAt, exitCode>>

\* webbrowser.open raises: OSError from launching the browser process, or
\* another exception; the call has no handler of its own
BrowserRaise ==
  /\ pc = "in_browser"
  /\ \E x \in {OSError(e) : e \in BrowserErrnos} \cup {OtherError} :
       exc' = x
  /\ trace' = Append(trace, "browser_raised")
  /\ pc' = "with_exit"
  /\ UNCHANGED <<argv, platform, portInUse, cwd, bi, bound, out, opens, pending,
                 responses, dispatched, intAt, exitCode>>

\* a client connects to the listening socket and sends a request; it waits
\* in the listen queue until serve_forever accepts it
Connect ==
  /\ bound
  /\ pc \in InWith
  /\ Len(pending) + dispatched < MaxRequests
  /\ \E r \in Requests : pending' = Append(pending, r)
  /\ UNCHANGED <<argv, platform, portInUse, cwd, pc, bi, bound, out, opens,
                 responses, dispatched, exc, intAt, exitCode, trace>>

\* a server whose handler exceptions propagate out of serve_forever
HandleRequest_Propagates ==
  /\ pc = "serving"
  /\ pending # <<>>
  /\ dispatched' = dispatched + 1
  /\ pending' = Tail(pending)
  /\ IF Head(pending).fault
       THEN /\ responses' = responses
            /\ exc' = OtherError
            /\ pc' = "with_exit"
       ELSE /\ responses' = Append(responses, Response(Head(pending), cwd))
            /\ exc' = exc
            /\ pc' = pc
  /\ UNCHANGED <<argv, platform, portInUse, cwd, bi, bound, out, opens,
                 intAt, exitCode, trace>>

\* a server that accepts in the background as soon as it is bound, so that
\* requests are dispatched while webbrowser.open is still running
HandleRequest_DuringBrowser ==
  /\ pc \in {"in_browser", "serving"}
  /\ pending # <<>>
  /\ dispatched' = dispatched + 1
  /\ pending' = Tail(pending)
  /\ responses' = IF Head(pending).fault
                    THEN responses
                    ELSE Append(responses, Response(Head(pending), cwd))
  /\ UNCHANGED <<argv, platform, portInUse, cwd, pc, bi, bound, out, opens,
                 exc, intAt, exitCode, trace>>

\* one round of serve_forever: accept, run the handler, answer; an
\* exception of the handler is reported by handle_error and dropped
HandleRequest ==
  /\ pc = "serving"
  /\ pending # <<>>
  /\ dispatched' = dispatched + 1
  /\ pending' = Tail(pending)
  /\ responses' = IF Head(pending).fault
                    THEN responses
                    ELSE Append(responses, Response(Head(pending), cwd))
  /\ UNCHANGED <<argv, platform, portInUse, cwd, pc, bi, bound, out, opens,
                 exc, intAt, exitCode, trace>>

\* Ctrl+C: KeyboardInterrupt is raised in main wherever it stands
Interrupt ==
  /\ pc \in Running
  /\ exc' = KeyboardInterrupt
  /\ intAt' = pc
  /\ pc' = IF pc = "chdir" THEN "uncaught"
           ELSE IF pc \in InWith THEN "with_exit" ELSE "except"
  /\ UNCHANGED <<argv, platform, portInUse, cwd, bi, bound, out, opens, pending,
                 responses, dispatched, exitCode, trace>>

\* leaving a block that does not close the server
WithExit_NoClose ==
  /\ pc = "with_exit"
  /\ bound' = bound
  /\ pending' = pending
  /\ pc' = "except"
  /\ UNCHANGED <<argv, platform, portInUse, cwd, bi, out, opens,
                 responses, dispatched, exc, intAt, exitCode, trace>>

\* leaving the with block: TCPServer.__exit__ calls server_close
WithExit ==
  /\ pc = "with_exit"
  /\ bound' = FALSE
  /\ pending' = <<>>
  /\ pc' = "except"
  /\ UNCHANGED <<argv, platform, portInUse, cwd, bi, out, opens,
                 responses, dispatched, exc, intAt, exitCode, trace>>

\* except KeyboardInterrupt: print the notice; main returns
ExceptKeyboardInterrupt ==
  /\ pc = "except"
  /\ exc.type = "KeyboardInterrupt"
  /\ out' = Append(out, StoppedLine)
  /\ pc' = "done"
  /\ exitCode' = 0
  /\ UNCHANGED <<argv, platform, portInUse, cwd, bi, bound, opens, pending,
                 responses, dispatched, exc, intAt, trace>>

\* except OSError as e: the two diagnostics; main returns
ExceptOSError ==
  /\ pc = "except"
  /\ exc.type = "OSError"
  /\ out' = IF exc.errno = 48
              THEN out \o PortInUseLines
              ELSE Append(out, ErrorStartingLine(exc.errno))
  /\ pc' = "done"
  /\ exitCode' = 0
  /\ UNCHANGED <<argv, platform, portInUse, cwd, bi, bound, opens, pending,
                 responses, dispatched, exc, intAt, trace>>

\* no except clause matches, or the exception was raised outside the try:
\* the interpreter prints the traceback and exits with status 1
Uncaught ==
  /\ \/ pc = "uncaught"
     \/ pc = "except" /\ exc.type = "Error"
  /\ pc' = "crashed"
  /\ exitCode' = 1
  /\ UNCHANGED <<argv, platform, portInUse, cwd, bi, bound, out, opens, pending,
                 responses, dispatched, exc, intAt, trace>>

Next ==
  \/ Chdir
  \/ BindOk
  \/ BindFail
  \/ Banner
  \/ BrowserStep
  \/ BrowserReturn
  \/ BrowserRaise
  \/ Connect
  \/ HandleRequest
  \/ Interrupt
  \/ WithExit
  \/ ExceptKeyboardInterrupt
  \/ ExceptOSError
  \/ Uncaught

Spec == Init /\ [][Next]_vars

\* main is a running thread: whatever step it stands at is eventually
\* taken; connections and Ctrl+C are the environment's and may never come
MainStep ==
  \/ Chdir
  \/ BindOk
  \/ BindFail
  \/ Banner
  \/ BrowserStep
  \/ BrowserReturn
  \/ BrowserRaise
  \/ HandleRequest
  \/ WithExit
  \/ ExceptKeyboardInterrupt
  \/ ExceptOSError
  \/ Uncaught

FairSpec == Init /\ [][Next]_vars /\ WF_vars(MainStep)

(* ------------------------------ helpers -------------------------------- *)

Range(f) == {f[i] : i \in DOMAIN f}

InTrace(e) == e \in Range(trace)

HeaderCount(h, name) == Cardinality({i \in DOMAIN h : h[i][1] = name})

BannerKinds == {BannerLines(ScriptDir)[i].line : i \in 1..BannerLen}

\* the lifecycle state of section 4.1 that a position of main belongs to
State ==
  IF pc \in {"chdir", "bind", "banner", "browser", "in_browser"} THEN "STARTING"
  ELSE IF pc = "serving" THEN "SERVING"
  ELSE "STOPPED"

(* ------------------------------- claims -------------------------------- *)

\* C1 (as stated): every response the server sends carries the header
\* Cross-Origin-Embedder-Policy: require-corp and the header
\* Cross-Origin-Opener-Policy: same-origin, each exactly once.
C1_EveryResponseHasBothHeaders ==
  \A i \in DOMAIN responses :
    /\ HeaderCount(responses[i].headers, COEP[1]) = 1
    /\ HeaderCount(responses[i].headers, COOP[1]) = 1

\* C1 (amended): every response that has a header block (the request line
\* carried an accepted HTTP/1.x version word) carries each of the two
\* headers exactly once, with its fixed value, as the last two headers
\* before the blank line that ends the block, whatever the status; a
\* response answered as HTTP/0.9 has no header block at all.
C1_HeaderBlockHasBothHeaders ==
  \A i \in DOMAIN responses :
    LET h == responses[i].headers
        n == Len(h)
    IN IF responses[i].version = "HTTP/0.9"
         THEN h = <<>>
         ELSE /\ HeaderCount(h, COEP[1]) = 1
              /\ HeaderCount(h, COOP[1]) = 1
              /\ n >= 3
              /\ h[n - 2] = COEP
              /\ h[n - 1] = COOP
              /\ h[n] = EndOfHeaders

\* C1 witness: a 200 response and an error response, both with a header block
C1_Witness ==
  \E i, j \in DOMAIN responses :
    /\ responses[i].status = 200
    /\ responses[j].status >= 400
    /\ responses[i].version # "HTTP/0.9"
    /\ responses[j].version # "HTTP/0.9"

\* C2 (as stated): after a bind failure main has printed exactly one of the
\* two diagnostics: the "port in use" one when the port was already bound,
\* on any platform, and otherwise the "Error starting server" line carrying
\* the error.
C2_BindDiagnostics ==
  (pc = "done" /\ InTrace("bind_failed")) =>
    IF portInUse
      THEN /\ CountLine("port_in_use") = 1
           /\ CountLine("error_starting") = 0
      ELSE /\ CountLine("port_in_use") = 0
           /\ CountLine("error_starting") = 1
           /\ out[Len(out)] = ErrorStartingLine(exc.errno)

\* C3 (as stated): with --no-browser anywhere on the command line no
\* browser-open call is made; without it exactly one call has been made,
\* for /index.html, once startup is over in a run that was not interrupted.
C3_FlagAnywhereOneCallOtherwise ==
  /\ "--no-browser" \in Range(argv) => opens = <<>>
  /\ ("--no-browser" \notin Range(argv) /\ intAt = "none"
        /\ pc \in {"serving", "done", "crashed"})
       => opens = <<IndexUrl>>

\* C3 (amended): if sys.argv[1] is --no-browser no browser-open call is
\* ever made; otherwise at most one call is made, for
\* http://localhost:8000/index.html, only after the bind succeeded and the
\* banner was printed, and exactly one has been made whenever the accept
\* loop is entered; a run whose bind fails or that is interrupted before
\* the browser step makes none.
C3_FirstArgumentDecides ==
  /\ NoBrowser(argv) => opens = <<>>
  /\ opens \in {<<>>, <<IndexUrl>>}
  /\ opens # <<>> <=> InTrace("browser_open")
  /\ opens # <<>> => InTrace("bind") /\ InTrace("banner")
  /\ (~NoBrowser(argv) /\ InTrace("serve_forever")) => opens = <<IndexUrl>>

\* C3 witness: --no-browser as second argument, the server serving and the
\* browser opened once
C3_Witness ==
  /\ argv = <<"server.py", "--verbose", "--no-browser">>
  /\ pc = "serving"
  /\ opens = <<IndexUrl>>

\* C4 (as stated): after a failed browser launch, reported by return value
\* or by an exception, the server is serving unless it was interrupted,
\* and no server-start error was printed.
C4_BrowserFailureNotFatal ==
  (InTrace("browser_false") \/ InTrace("browser_raised")) =>
    /\ intAt # "none" \/ pc = "serving"
    /\ CountLine("error_starting") = 0
    /\ CountLine("port_in_use") = 0

\* C5: an interrupt that arrives while serving leads to main having
\* returned (exit code 0) with the listening socket closed and the shutdown
\* notice printed exactly once; the notice is never printed twice and no
\* request is dispatched or answered once it is printed.
C5_InterruptWhileServing ==
  /\ [](CountLine("server_stopped") <= 1)
  /\ (intAt = "serving") ~>
       (pc = "done" /\ exitCode = 0 /\ ~bound /\ CountLine("server_stopped") = 1)
  /\ [][CountLine("server_stopped") > 0 =>
          (dispatched' = dispatched /\ responses' = responses /\ pc' = "done")]_vars

\* C5 witness: requests were served, then the interrupt arrived and main returned
C5_Witness ==
  /\ intAt = "serving"
  /\ dispatched > 0
  /\ pc = "done"
  /\ CountLine("server_stopped") = 1

\* C6 (as stated): STOPPED is terminal, SERVING is left only by an
\* interrupt, STARTING is left for STOPPED only by an interrupt or a bind
\* error, and after a successful bind no bind-failure diagnostic is printed.
C6_LifecycleTransitions ==
  /\ [][/\ State = "STOPPED" => State' = "STOPPED"
        /\ State = "SERVING" => State' \in {"SERVING", "STOPPED"}
        /\ (State = "SERVING" /\ State' = "STOPPED") => exc'.type = "KeyboardInterrupt"
        /\ (State = "STARTING" /\ State' = "STOPPED") =>
             \/ exc'.type = "KeyboardInterrupt"
             \/ pc = "bind" /\ exc'.type = "OSError"]_vars
  /\ [](InTrace("bind") =>
          CountLine("error_starting") = 0 /\ CountLine("port_in_use") = 0)

\* C7: a request that fails (nonexistent or unreadable path, malformed
\* request line, unsupported method, handler exception) is answered with a
\* 4xx/5xx status when it is answered, 404 for a nonexistent path of a
\* well-formed GET, and handling any request leaves the server serving:
\* bound, no exception in flight, not terminated.
C7_RequestFailureKeepsServing ==
  /\ [](\A i \in DOMAIN responses :
          LET r == responses[i].req IN
            /\ (r.target \in {"missing", "denied"} \/ ~parse_request(r).ok \/ r.command # "GET")
                 => responses[i].status \in 400..599
            /\ (r.target = "missing" /\ parse_request(r).ok /\ r.command = "GET")
                 => responses[i].status = 404)
  /\ [][dispatched' # dispatched =>
          (pc' = "serving" /\ bound' /\ exc' = NoExc /\ exitCode' = -1)]_vars

\* C7 witness: a failing request and a succeeding one were answered, a
\* handler exception is not needed, and the server is still serving
C7_Witness ==
  /\ pc = "serving"
  /\ bound
  /\ \E i, j \in DOMAIN responses :
       responses[i].status = 404 /\ responses[j].status = 200

\* C8: once the chdir step has run the working directory is the directory
\* of server.py; it is that directory whenever the socket is bound, for
\* every request answered and in the banner line that prints it, and the
\* chdir step runs once.
C8_ServingRootFixed ==
  /\ InTrace("chdir") => cwd = ScriptDir
  /\ bound => InTrace("chdir")
  /\ Cardinality({i \in DOMAIN trace : trace[i] = "chdir"}) <= 1
  /\ \A i \in DOMAIN responses : responses[i].root = ScriptDir
  /\ \A i \in DOMAIN out : out[i].line = "serving_from" => out[i].dir = ScriptDir

\* C8 witness: the banner printed the directory and a request was resolved
C8_Witness ==
  /\ CountLine("serving_from") = 1
  /\ Len(responses) >= 1
  /\ pc = "serving"

\* C9: every banner line is printed at most once in a run, none is printed
\* unless the bind succeeded, and once the banner is complete the output
\* starts with the eight banner lines (port 8000, the serving directory,
\* the two URLs) in order, also while serving and after shutdown.
C9_BannerOnce ==
  /\ \A l \in BannerKinds : CountLine(l) <= 1
  /\ ~InTrace("bind") => \A l \in BannerKinds : CountLine(l) = 0
  /\ InTrace("banner") =>
       /\ Len(out) >= BannerLen
       /\ SubSeq(out, 1, BannerLen) = BannerLines(ScriptDir)
       /\ \A l \in BannerKinds : CountLine(l) = 1

\* C9 witness: banner printed, requests served, shutdown notice printed
C9_Witness ==
  /\ InTrace("banner")
  /\ dispatched > 0
  /\ pc = "done"
  /\ CountLine("server_stopped") = 1

\* the place of a startup event in the order of main
Rank(e) ==
  CASE e = "chdir" -> 1
    [] e \in {"bind", "bind_failed"} -> 2
    [] e = "banner" -> 3
    [] e = "browser_open" -> 4
    [] e \in {"browser_true", "browser_false", "browser_raised"} -> 5
    [] e = "serve_forever" -> 6

\* C10: the startup events happen in the order chdir, bind, banner,
\* browser call, browser return, accept loop; after a bind failure there
\* is no banner line, no browser-open call and no dispatch; while the
\* browser-open call is in progress the socket is bound and nothing has
\* been dispatched; a dispatch happens only in the accept loop.
C10_StartupOrder ==
  /\ \A i, j \in DOMAIN trace : i < j => Rank(trace[i]) < Rank(trace[j])
  /\ \A i \in DOMAIN trace : Rank(trace[i]) > 1 => InTrace("chdir")
  /\ InTrace("banner") => InTrace("bind")
  /\ InTrace("serve_forever") => InTrace("banner")
  /\ InTrace("bind_failed") =>
       /\ \A l \in BannerKinds : CountLine(l) = 0
       /\ opens = <<>>
       /\ dispatched = 0
       /\ responses = <<>>
       /\ ~bound
  /\ pc = "in_browser" => bound /\ dispatched = 0 /\ responses = <<>>
  /\ opens # <<>> => InTrace("bind") /\ InTrace("banner")
  /\ dispatched > 0 => InTrace("serve_forever")

\* C10 witness: a client is already waiting in the listen queue while the
\* browser-open call is in progress
C10_Witness ==
  /\ pc = "in_browser"
  /\ pending # <<>>
  /\ bound

====
